---------------------------- MODULE Spec2Model ----------------------------
(***************************************************************************)
(* Model of the windowed extraction and flattening pipeline of             *)
(* kusto-export-xlsx (src/main2.py) and of the two flatten_data            *)
(* implementations (src/main.py, src/main2.py).                            *)
(*                                                                         *)
(* Time is an integer count of microseconds.  One model "tick" stands for  *)
(* the whole-second part of a timestamp and a day is DayTicks ticks long.  *)
(* Strings are sequences of one-character strings.                         *)
(***************************************************************************)
EXTENDS Integers, Sequences, FiniteSets, TLC

VARIABLES
    start_dt,        \* get_query_results: start of the requested range
    end_dt,          \* get_query_results: end of the requested range
    backend,         \* the backend table: rows ordered by dateTimeGenerated
    ALLOWED_TAG_NAMES, \* the allow-list (module constant of the script)
    impl,            \* which script runs: "main2" or "main"
    pc,              \* "fetch", "flatten", "done", "crashed"
    current_start,   \* loop cursor of get_query_results
    all_dfs,         \* list of per-window frames
    calls,           \* history: one entry per client.execute call
    log,             \* history: lines printed by the except clauses
    data,            \* the frame returned by get_query_results
    idx,             \* position of data.iterrows() in the flattening comprehension
    flattened_data,  \* flat rows produced so far
    sheets,          \* sheets written by the sink
    err              \* the exception that ended the script, or "none"

vars == <<start_dt, end_dt, backend, ALLOWED_TAG_NAMES, impl, pc, current_start,
          all_dfs, calls, log, data, idx, flattened_data, sheets, err>>

-----------------------------------------------------------------------------
\* Bounds of the model.

\* Largest tick a range bound or a backend timestamp can take.
MaxT == 6
\* Ticks in one day (the script's chunk is timedelta(days=1)).
DayTicks == 2
\* Largest number of rows in the backend table of the pipeline.
MaxRows == 3
\* Largest number of rows handed to the flattener on its own.
MaxFlatRows == 2

\* Microseconds in one tick (the %f field has six digits).
US == 1000000
\* UTC offset of TIMEZONE in ticks (Asia/Kuala_Lumpur is UTC+8, a third of a day;
\* here a fixed whole number of ticks below one day).
TzOffset == 1

\* timedelta(days=1)
Chunk == DayTicks * US


-----------------------------------------------------------------------------
\* Generic helpers on sequences.

RECURSIVE ConcatAll(_)
ConcatAll(ss) ==
    IF ss = <<>> THEN <<>> ELSE Head(ss) \o ConcatAll(Tail(ss))

Min(a, b) == IF a < b THEN a ELSE b

SeqsUpTo(S, n) == UNION {[1..k -> S] : k \in 0..n}


-----------------------------------------------------------------------------
\* Text of timestamps: strftime and strptime.

DigitChars == <<"0", "1", "2", "3", "4", "5", "6", "7", "8", "9">>

IsDigit(c) == \E n \in 1..10 : DigitChars[n] = c

DigitVal(c) == (CHOOSE n \in 1..10 : DigitChars[n] = c) - 1

RECURSIVE Pow10(_)
Pow10(k) == IF k = 0 THEN 1 ELSE 10 * Pow10(k - 1)

\* A number printed with w digits, zero filled on the left (%S, %d, %f).
ZeroPad(n, w) == [i \in 1..w |-> DigitChars[((n \div Pow10(w - i)) % 10) + 1]]

\* The value of a run of digits.
RECURSIVE ParseInt(_)
ParseInt(s) ==
    IF s = <<>> THEN 0
    ELSE 10 * ParseInt(SubSeq(s, 1, Len(s) - 1)) + DigitVal(s[Len(s)])

\* Series.dt.strftime("%Y-%m-%dT%H:%M:%S.%fZ"): whole ticks, ".", six
\* microsecond digits, "Z".
StrftimeUTC(ts) == ZeroPad(ts \div US, 2) \o <<".">> \o ZeroPad(ts % US, 6) \o <<"Z">>

\* datetime.strptime(s, "%Y-%m-%dT%H:%M:%S.%f" [+ "Z"]).  %f takes one to six
\* digits and pads them on the right to microseconds.  A text that does not
\* match the format raises ValueError.
Strptime(s, withZ) ==
    LET zOk  == (~withZ) \/ (Len(s) > 0 /\ s[Len(s)] = "Z")
        body == IF withZ /\ zOk THEN SubSeq(s, 1, Len(s) - 1) ELSE s
        n    == Len(body)
        ok   == /\ zOk
                /\ n >= 4 /\ n <= 9
                /\ body[3] = "."
                /\ \A i \in (1..n) \ {3} : IsDigit(body[i])
        frac == SubSeq(body, 4, n)
    IN  IF ok
        THEN [ok |-> TRUE,
              t  |-> ParseInt(SubSeq(body, 1, 2)) * US
                     + ParseInt(frac) * Pow10(6 - Len(frac))]
        ELSE [ok |-> FALSE, t |-> 0]

\* str.rstrip("Z")
RECURSIVE RstripZ(_)
RstripZ(s) ==
    IF s # <<>> /\ s[Len(s)] = "Z" THEN RstripZ(SubSeq(s, 1, Len(s) - 1)) ELSE s

\* pytz.utc.localize(t).astimezone(timezone(TIMEZONE)): the wall clock of the
\* same instant in the target zone.
AsTimezone(t) == t + TzOffset * US

\* strftime("%Y-%m-%d") of a wall-clock time: the day it falls in.
StrftimeDate(wall) == ZeroPad((wall \div US) \div DayTicks, 2)

\* strftime("%H:%M:%S.%f") of a wall-clock time.
StrftimeTime(wall) ==
    ZeroPad((wall \div US) % DayTicks, 2) \o <<".">> \o ZeroPad(wall % US, 6)

-----------------------------------------------------------------------------
\* JSON values and texts.

SITE == "quill-city-mall"

\* A tagName of a reading: a string, JSON null, or no such key.
TagStr(s) == [k |-> "str", s |-> s]
TagNull == [k |-> "null", s |-> <<>>]
TagAbsent == [k |-> "absent", s |-> <<>>]

\* An element of the data array: a tag reading (a JSON object) or not.
\* modbusAddress and unit are optional keys ("absent" when the key is missing).
Reading(tag, value) ==
    [obj |-> TRUE, tagName |-> tag, modbusAddress |-> "absent", unit |-> "kWh",
     value |-> value]
NotAnObject ==
    [obj |-> FALSE, tagName |-> TagAbsent, modbusAddress |-> "absent",
     unit |-> "absent", value |-> 0]

JsonArray(items) == [k |-> "array", items |-> items]
JsonNumber == [k |-> "number", items |-> <<>>]

\* json.dumps(x): the text of a value.
JsonDumps(v) == [valid |-> TRUE, v |-> v]
\* A text that is not JSON.
InvalidJsonText == [valid |-> FALSE, v |-> JsonNumber]

\* json.loads(text): the value, or JSONDecodeError.
JsonLoads(text) ==
    IF text.valid THEN [ok |-> TRUE, v |-> text.v]
    ELSE [ok |-> FALSE, v |-> JsonNumber]

-----------------------------------------------------------------------------
\* get_query_results of src/main2.py.

\* The KQL query of one window: rows of the site with
\* dateTimeGenerated >= lo and dateTimeGenerated <= hi, in ascending order
\* (the table is kept in ascending order).
BackendQuery(lo, hi) ==
    SelectSeq(backend, LAMBDA r : /\ r.site = SITE
                                  /\ r.dateTimeGenerated >= lo
                                  /\ r.dateTimeGenerated <= hi)

\* while current_start < end_dt
LoopGuard(cur, end) == cur < end

\* Mutant of CurrentEnd: the window is not clipped to the range end.
CurrentEnd_NoMin(cur, end) == cur + Chunk

\* current_end = min(current_start + timedelta(days=1), end_dt)
CurrentEnd(cur, end) == Min(cur + Chunk, end)

\* What one call of the try block can do: succeed, or raise in client.execute,
\* in dataframe_from_result_table or, when the frame is not empty, in the
\* normalization of its columns.
Outcomes(rows) ==
    {"ok", "execute_error", "convert_error"}
        \cup (IF rows # <<>> THEN {"normalize_error"} ELSE {})

\* The normalization of one fetched row: dateTimeGenerated as text, data as
\* JSON text.  src (the window and the position in its result) and ts (the
\* backend's instant) are history fields: no code reads them.
NormalizeRow(r, win, pos) ==
    [dateTimeGenerated |-> StrftimeUTC(r.dateTimeGenerated),
     site |-> r.site,
     data |-> JsonDumps(r.data),
     src  |-> <<win, pos>>,
     ts   |-> r.dateTimeGenerated]

NormalizeFrame(rows, win) == [i \in 1..Len(rows) |-> NormalizeRow(rows[i], win, i)]

\* Mutant of AppendFrame: the frame is appended before it is normalized, so a
\* window whose normalization raises stays in the result.
AppendFrame_BeforeNormalize(dfs, outcome, rows, win) ==
    IF outcome \in {"ok", "normalize_error"} /\ rows # <<>>
    THEN Append(dfs, NormalizeFrame(rows, win))
    ELSE dfs

\* Mutant of AppendFrame: the frame is put at the front of the list.
AppendFrame_Prepend(dfs, outcome, rows, win) ==
    IF outcome = "ok" /\ rows # <<>>
    THEN <<NormalizeFrame(rows, win)>> \o dfs
    ELSE dfs

\* The try block's effect on all_dfs: the frame is appended as its last
\* statement, and only when it is not empty.
AppendFrame(dfs, outcome, rows, win) ==
    IF outcome = "ok" /\ rows # <<>>
    THEN Append(dfs, NormalizeFrame(rows, win))
    ELSE dfs

\* Mutant of LogFetchError: the line is printed after the cursor has moved on
\* and names the next window.
LogFetchError_NextWindow(lg, outcome, cur) ==
    IF outcome # "ok"
    THEN Append(lg, [kind |-> "fetch", at |-> cur + Chunk, e |-> outcome])
    ELSE lg

\* except Exception as e: print(f"Error fetching data for {current_start}: {e}")
LogFetchError(lg, outcome, cur) ==
    IF outcome # "ok"
    THEN Append(lg, [kind |-> "fetch", at |-> cur, e |-> outcome])
    ELSE lg

\* Mutant of NextStart: a failed window is tried again.
NextStart_RetryFailed(cur, curEnd, outcome) == IF outcome = "ok" THEN curEnd ELSE cur

\* current_start = current_end
NextStart(cur, curEnd, outcome) == curEnd

\* pd.concat(all_dfs, ignore_index=True) if all_dfs else pd.DataFrame()
ConcatFrames(dfs) == IF dfs # <<>> THEN ConcatAll(dfs) ELSE <<>>

\* One iteration of the while loop.
FetchWindow ==
    /\ pc = "fetch"
    /\ LoopGuard(current_start, end_dt)
    /\ LET current_end == CurrentEnd(current_start, end_dt)
           rows == BackendQuery(current_start, current_end)
           win  == Len(calls) + 1
       IN  \E outcome \in Outcomes(rows) :
             /\ calls' = Append(calls, [start |-> current_start, end |-> current_end,
                                        outcome |-> outcome, rows |-> Len(rows)])
             /\ all_dfs' = AppendFrame(all_dfs, outcome, rows, win)
             /\ log' = LogFetchError(log, outcome, current_start)
             /\ current_start' = NextStart(current_start, current_end, outcome)
    /\ UNCHANGED <<start_dt, end_dt, backend, ALLOWED_TAG_NAMES, impl, pc, data,
                   idx, flattened_data, sheets, err>>

\* The loop ends and the function returns the combined frame.
FetchReturn ==
    /\ pc = "fetch"
    /\ ~LoopGuard(current_start, end_dt)
    /\ data' = ConcatFrames(all_dfs)
    /\ pc' = "flatten"
    /\ UNCHANGED <<start_dt, end_dt, backend, ALLOWED_TAG_NAMES, impl, current_start,
                   all_dfs, calls, log, idx, flattened_data, sheets, err>>

-----------------------------------------------------------------------------
\* flatten_data of src/main2.py and of src/main.py.

UpperChars == <<"A", "B", "C", "D", "E", "F", "G", "H", "I", "J", "K", "L", "M",
                "N", "O", "P", "Q", "R", "S", "T", "U", "V", "W", "X", "Y", "Z">>
LowerChars == <<"a", "b", "c", "d", "e", "f", "g", "h", "i", "j", "k", "l", "m",
                "n", "o", "p", "q", "r", "s", "t", "u", "v", "w", "x", "y", "z">>

\* Mutant of Lower: no case folding.
Lower_Identity(s) == s

\* str.lower()
Lower(s) ==
    [i \in 1..Len(s) |->
        IF \E n \in 1..26 : UpperChars[n] = s[i]
        THEN LowerChars[CHOOSE n \in 1..26 : UpperChars[n] = s[i]]
        ELSE s[i]]

\* p in s, for strings
IsSubstring(p, s) ==
    \E i \in 0..(Len(s) - Len(p)) : SubSeq(s, i + 1, i + Len(p)) = p

\* "*" in ALLOWED_TAG_NAMES
StarAllowed == \E i \in 1..Len(ALLOWED_TAG_NAMES) : ALLOWED_TAG_NAMES[i] = <<"*">>

\* any(tag.lower() in name.lower() for tag in ALLOWED_TAG_NAMES), name a string
AnyPatternIn(name) ==
    \E i \in 1..Len(ALLOWED_TAG_NAMES) :
        IsSubstring(Lower(ALLOWED_TAG_NAMES[i]), Lower(name))

\* A key of the row that the frame does not have.
MissingKey == "<missing>"

\* item.get(key): None for a key the reading does not have.
Get(v) == IF v = "absent" THEN "None" ELSE v

\* item.get("tagName", ""): the empty string for a reading without the key,
\* None for a JSON null.
GetTagName(item) ==
    IF item.tagName.k = "absent" THEN TagStr(<<>>) ELSE item.tagName

\* What the loop body does with one element of the data array: "emit" a flat
\* row, "skip" the element, or raise.
\*  main2: the filter of the comprehension comes first ("*" short-cuts it, an
\*  empty allow-list never evaluates item.get), then the dict is built: row["site"],
\*  then item.get.
\*  main: tag_name = item.get("tagName", "") comes first, then the filter.
ItemStep(item, row) ==
    IF impl = "main2"
    THEN IF StarAllowed
         THEN IF row.site = MissingKey THEN "KeyError"
              ELSE IF ~item.obj THEN "AttributeError"
              ELSE "emit"
         ELSE IF ALLOWED_TAG_NAMES = <<>> THEN "skip"
         ELSE IF ~item.obj THEN "AttributeError"
         ELSE IF GetTagName(item).k = "null" THEN "AttributeError"
         ELSE IF ~AnyPatternIn(GetTagName(item).s) THEN "skip"
         ELSE IF row.site = MissingKey THEN "KeyError"
         ELSE "emit"
    ELSE IF ~item.obj THEN "AttributeError"
         ELSE IF StarAllowed THEN "emit"
         ELSE IF ALLOWED_TAG_NAMES = <<>> THEN "skip"
         ELSE IF GetTagName(item).k = "null" THEN "AttributeError"
         ELSE IF AnyPatternIn(GetTagName(item).s) THEN "emit"
         ELSE "skip"

\* The dict built for one reading.  src and ts are history fields.
FlatRow(row, item, k, local_date, local_time) ==
    [date |-> local_date,
     time |-> local_time,
     site |-> row.site,
     modbusAddress |-> Get(item.modbusAddress),
     tagName |-> GetTagName(item),
     unit |-> Get(item.unit),
     value |-> item.value,
     src |-> row.src \o <<k>>,
     ts |-> row.ts]

\* The loop over data_array from element k on: the rows built in array order,
\* or the first exception.  KeyError is caught by flatten_data, anything else
\* leaves it.
RECURSIVE ScanItems(_, _, _, _, _, _)
ScanItems(items, k, row, local_date, local_time, acc) ==
    IF k > Len(items) THEN [k |-> "ok", e |-> "none", rows |-> acc]
    ELSE LET o == ItemStep(items[k], row)
         IN  IF o = "emit"
             THEN ScanItems(items, k + 1, row, local_date, local_time,
                            Append(acc, FlatRow(row, items[k], k, local_date, local_time)))
             ELSE IF o = "skip"
             THEN ScanItems(items, k + 1, row, local_date, local_time, acc)
             ELSE IF o = "KeyError"
             THEN [k |-> "caught", e |-> o, rows |-> <<>>]
             ELSE [k |-> "raised", e |-> o, rows |-> <<>>]

\* convert_to_local_time(utc_time_str, timezone_str) as flatten_data calls it.
\*  main2: strptime with the format ending in "Z".
\*  main: the caller passes (s[:-2] + "Z").rstrip("Z"), the format has no "Z".
ConvertToLocalTime(s) ==
    LET p == IF impl = "main2"
             THEN Strptime(s, TRUE)
             ELSE Strptime(RstripZ(SubSeq(s, 1, Len(s) - 2) \o <<"Z">>), FALSE)
    IN  [ok |-> p.ok, wall |-> AsTimezone(p.t)]

\* flatten_data(row, timezone_str): [k |-> "ok", rows] when it returns the rows,
\* [k |-> "caught"] when its except clause prints and returns [],
\* [k |-> "raised"] when an exception leaves it.
FlattenData(row) ==
    LET c == ConvertToLocalTime(row.dateTimeGenerated)
        local_date == StrftimeDate(c.wall)
        local_time == StrftimeTime(c.wall)
        j == JsonLoads(row.data)
    IN  IF ~c.ok THEN [k |-> "raised", e |-> "ValueError", rows |-> <<>>]
        ELSE IF impl = "main" /\ row.site = MissingKey
        THEN [k |-> "caught", e |-> "KeyError", rows |-> <<>>]
        ELSE IF ~j.ok THEN [k |-> "caught", e |-> "JSONDecodeError", rows |-> <<>>]
        ELSE IF j.v.k # "array" THEN [k |-> "raised", e |-> "TypeError", rows |-> <<>>]
        ELSE ScanItems(j.v.items, 1, row, local_date, local_time, <<>>)

-----------------------------------------------------------------------------
\* The module-level pipeline after get_query_results.

\* One step of the comprehension
\*   [flat_row for _, row in data.iterrows() for flat_row in flatten_data(row, tz)]
\* An exception that leaves flatten_data ends the script: flattened_data is
\* never bound.
FlattenRow ==
    /\ pc = "flatten"
    /\ idx <= Len(data)
    /\ LET r == FlattenData(data[idx])
       IN  /\ flattened_data' = (IF r.k = "raised" THEN <<>> ELSE flattened_data \o r.rows)
           /\ log' = (IF r.k = "caught"
                      THEN Append(log, [kind |-> "row", at |-> idx, e |-> r.e])
                      ELSE log)
           /\ pc' = (IF r.k = "raised" THEN "crashed" ELSE pc)
           /\ err' = (IF r.k = "raised" THEN r.e ELSE err)
    /\ idx' = idx + 1
    /\ UNCHANGED <<start_dt, end_dt, backend, ALLOWED_TAG_NAMES, impl, current_start,
                   all_dfs, calls, data, sheets>>

\* flattened_df.groupby("date"): one group per date, rows in frame order.  A
\* frame built from no rows has no "date" column.
GroupByDate(rows) ==
    {[name |-> d, rows |-> SelectSeq(rows, LAMBDA f : f.date = d)] :
        d \in {rows[i].date : i \in 1..Len(rows)}}

\* The sink.
\*  main2: with pd.ExcelWriter(...): one sheet per group of groupby("date");
\*  groupby raises KeyError: 'date' on a frame without that column.
\*  main: flattened_df.to_excel(...) writes one sheet.
WriteSink ==
    /\ pc = "flatten"
    /\ idx > Len(data)
    /\ IF impl = "main2"
       THEN IF flattened_data = <<>>
            THEN /\ pc' = "crashed"
                 /\ err' = "KeyError"
                 /\ sheets' = sheets
            ELSE /\ pc' = "done"
                 /\ err' = err
                 /\ sheets' = GroupByDate(flattened_data)
       ELSE /\ pc' = "done"
            /\ err' = err
            /\ sheets' = {[name |-> <<"S", "h", "e", "e", "t", "1">>,
                           rows |-> flattened_data]}
    /\ UNCHANGED <<start_dt, end_dt, backend, ALLOWED_TAG_NAMES, impl, current_start,
                   all_dfs, calls, log, data, idx, flattened_data>>

-----------------------------------------------------------------------------
\* Inputs.

Star == <<"*">>

\* "saved-energy", the pattern of src/main.py
SavedEnergy == <<"s", "a", "v", "e", "d", "-", "e", "n", "e", "r", "g", "y">>

\* ALLOWED_TAG_NAMES as each script sets it.
ScriptAllowList(script) == IF script = "main2" THEN <<Star>> ELSE <<SavedEnergy>>

\* The payload of the backend rows of the pipeline: two tag readings.
PipelinePayload ==
    JsonArray(<<Reading(TagStr(<<"A", "b">>), 1), Reading(TagStr(<<"c">>), 2)>>)

\* Range bounds and backend timestamps of the pipeline: whole ticks.
PipelineTimes == {t * US : t \in 0..MaxT}

PipelineRows ==
    {[dateTimeGenerated |-> t, site |-> SITE, data |-> PipelinePayload] :
        t \in PipelineTimes}

\* Backend tables: one row per timestamp, in ascending order.
PipelineTables ==
    {s \in SeqsUpTo(PipelineRows, MaxRows) :
        \A i \in 1..Len(s) : \A j \in 1..Len(s) :
            i < j => s[i].dateTimeGenerated < s[j].dateTimeGenerated}

PipelineAllowLists == {<<Star>>, <<<<"a">>>>}

\* Timestamps handed to the flattener on its own: the start of a day, a time
\* with all six microsecond digits set, and the last microsecond of the local
\* day's last tick but one.
FlatTimes == {0, 123456, (DayTicks - 1) * US + 999999}

\* Texts of the data column handed to the flattener on its own.
FlatTexts ==
    {InvalidJsonText,
     JsonDumps(JsonNumber),
     JsonDumps(JsonArray(<<>>)),
     JsonDumps(JsonArray(<<Reading(TagStr(<<"A", "b">>), 1), NotAnObject>>)),
     JsonDumps(JsonArray(<<Reading(TagStr(<<"A", "b">>), 1), Reading(TagAbsent, 2),
                           Reading(TagStr(<<"B">>), 3)>>)),
     JsonDumps(JsonArray(<<Reading(TagStr(<<>>), 1), Reading(TagNull, 2)>>)),
     JsonDumps(JsonArray(<<Reading(TagStr(SavedEnergy), 5)>>))}

\* A row as get_query_results hands it on: dateTimeGenerated normalized from
\* the instant ts, data a text.
InputRow(ts, site, text, pos) ==
    [dateTimeGenerated |-> StrftimeUTC(ts), site |-> site, data |-> text,
     src |-> <<1, pos>>, ts |-> ts]

FlatInputs ==
    {<<ts, SITE, text>> : ts \in FlatTimes, text \in FlatTexts}
        \cup {<<0, MissingKey, JsonDumps(JsonArray(<<Reading(TagStr(<<"B">>), 3)>>))>>}

FlatAllowLists ==
    {<<Star>>, <<<<"a", "B">>>>, <<<<>>>>, <<>>, <<<<"x">>, <<"b">>>>}

-----------------------------------------------------------------------------
\* Specifications.

\* The script src/main2.py, from the call of get_query_results on.
Init ==
    /\ start_dt \in PipelineTimes
    /\ end_dt \in {t \in PipelineTimes : start_dt <= t}
    /\ backend \in PipelineTables
    /\ ALLOWED_TAG_NAMES \in PipelineAllowLists
    /\ impl = "main2"
    /\ pc = "fetch"
    /\ current_start = start_dt
    /\ all_dfs = <<>>
    /\ calls = <<>>
    /\ log = <<>>
    /\ data = <<>>
    /\ idx = 1
    /\ flattened_data = <<>>
    /\ sheets = {}
    /\ err = "none"

Next == FetchWindow \/ FetchReturn \/ FlattenRow \/ WriteSink

Spec == Init /\ [][Next]_vars

\* flatten_data of either script applied, row by row, to a frame of rows.
InitFlat ==
    /\ start_dt = 0
    /\ end_dt = 0
    /\ backend = <<>>
    /\ ALLOWED_TAG_NAMES \in FlatAllowLists
    /\ impl \in {"main", "main2"}
    /\ pc = "flatten"
    /\ current_start = 0
    /\ all_dfs = <<>>
    /\ calls = <<>>
    /\ log = <<>>
    /\ \E s \in SeqsUpTo(FlatInputs, MaxFlatRows) :
          data = [i \in 1..Len(s) |-> InputRow(s[i][1], s[i][2], s[i][3], i)]
    /\ idx = 1
    /\ flattened_data = <<>>
    /\ sheets = {}
    /\ err = "none"

NextFlat == FlattenRow \/ WriteSink

SpecFlat == InitFlat /\ [][NextFlat]_vars

\* The same, with the allow-list each script is written with.
InitScripts ==
    /\ InitFlat
    /\ ALLOWED_TAG_NAMES = ScriptAllowList(impl)

SpecScripts == InitScripts /\ [][NextFlat]_vars

-----------------------------------------------------------------------------
\* Properties of get_query_results (specification Spec).

\* ceil(a / b) for a >= 0, b > 0
CeilDiv(a, b) == (a + b - 1) \div b

\* The calls made so far that raised, and the fetch lines of the log.
FailedCalls == SelectSeq(calls, LAMBDA c : c.outcome # "ok")
FetchLog == SelectSeq(log, LAMBDA l : l.kind = "fetch")

\* C1: the sub-windows of the splitting loop are ascending, each at most one
\* chunk long and not empty, none ends after the range, the first starts at
\* the range start, each next one starts where the previous one ended and,
\* once the loop has ended on a range with start < end, the last one ends at
\* the range end: together they are exactly [start, end).
C1_WindowsPartitionRange ==
    /\ \A i \in 1..Len(calls) :
          /\ calls[i].start < calls[i].end
          /\ calls[i].end - calls[i].start <= Chunk
          /\ calls[i].end <= end_dt
          /\ (i = 1 => calls[i].start = start_dt)
          /\ (i > 1 => calls[i].start = calls[i - 1].end)
    /\ (pc # "fetch" /\ start_dt < end_dt) =>
          /\ Len(calls) >= 1
          /\ calls[Len(calls)].end = end_dt

\* C1 witness: the loop has ended after three windows, the last one shorter
\* than a chunk.
C1_Witness ==
    /\ pc # "fetch"
    /\ Len(calls) = 3
    /\ calls[3].end - calls[3].start < Chunk
    /\ calls[3].end = end_dt

\* C2: when every sub-window fetch succeeded, each backend row appears at most
\* once in the combined frame, also a row whose dateTimeGenerated is an
\* interior sub-window boundary.
C2_NoRowFetchedTwice ==
    (pc # "fetch" /\ \A i \in 1..Len(calls) : calls[i].outcome = "ok") =>
        \A j \in 1..Len(backend) :
            Cardinality({i \in 1..Len(data) :
                data[i].dateTimeGenerated = StrftimeUTC(backend[j].dateTimeGenerated)}) <= 1

\* The complete results of the successful windows from window i on, in window
\* order.
RECURSIVE SuccessfulResults(_)
SuccessfulResults(i) ==
    IF i > Len(calls) THEN <<>>
    ELSE (IF calls[i].outcome = "ok"
          THEN NormalizeFrame(BackendQuery(calls[i].start, calls[i].end), i)
          ELSE <<>>) \o SuccessfulResults(i + 1)

\* C3: a window whose fetch raised (in the backend call, the table conversion
\* or the normalization) contributes no row and does not end the fetch: no
\* frame kept comes from it, and the combined frame is the concatenation, in
\* window order, of the complete results of the successful windows.
C3_FailedWindowsSkipped ==
    /\ \A n \in 1..Len(all_dfs) : \A i \in 1..Len(all_dfs[n]) :
          calls[all_dfs[n][i].src[1]].outcome = "ok"
    /\ pc # "fetch" =>
          /\ data = SuccessfulResults(1)
          /\ (start_dt < end_dt => calls[Len(calls)].end = end_dt)

\* C3 witness: the fetch has returned rows although a window that had rows
\* failed, and a window was fetched after the failed one.
C3_Witness ==
    /\ pc # "fetch"
    /\ data # <<>>
    /\ \E i \in 1..Len(calls) :
          /\ calls[i].outcome = "normalize_error"
          /\ calls[i].rows > 0
          /\ i < Len(calls)

\* C8: the failure lines of the log are, in order, exactly the windows whose
\* fetch raised, one line each, naming that window; a window that succeeds,
\* also with zero rows, logs nothing.
C8_OneLogLinePerFailedWindow ==
    /\ Len(FetchLog) = Len(FailedCalls)
    /\ \A n \in 1..Len(FetchLog) : FetchLog[n].at = FailedCalls[n].start

\* C8 witness: after the fetch, one window has failed and another succeeded
\* with zero rows.
C8_Witness ==
    /\ pc # "fetch"
    /\ Len(FetchLog) = 1
    /\ \E i \in 1..Len(calls) : calls[i].outcome = "ok" /\ calls[i].rows = 0
    /\ \E i \in 1..Len(calls) : calls[i].outcome = "execute_error" /\ i > 1

\* C9: the loop makes one backend call per sub-window, in ascending window
\* order: the i-th call starts at start + (i - 1) * chunk whatever the earlier
\* calls did, the cursor stands at the end of the last call, there are never
\* more than ceil((end - start) / chunk) calls and exactly that many once the
\* loop has ended.  The loop terminates: while it runs a step is enabled, and
\* the calls made plus the windows still ahead of the cursor stay
\* ceil((end - start) / chunk), so every call leaves one window fewer.
C9_OneCallPerWindow ==
    /\ \A i \in 1..Len(calls) : calls[i].start = start_dt + (i - 1) * Chunk
    /\ Len(calls) <= CeilDiv(end_dt - start_dt, Chunk)
    /\ pc = "fetch" =>
          /\ current_start = (IF calls = <<>> THEN start_dt ELSE calls[Len(calls)].end)
          /\ Len(calls) + CeilDiv(end_dt - current_start, Chunk)
                = CeilDiv(end_dt - start_dt, Chunk)
          /\ ENABLED (FetchWindow \/ FetchReturn)
    /\ pc # "fetch" => Len(calls) = CeilDiv(end_dt - start_dt, Chunk)

\* C9 witness: a range of more than two chunks has been fetched in three calls
\* although the second one failed.
C9_Witness ==
    /\ pc # "fetch"
    /\ Len(calls) = 3
    /\ calls[2].outcome # "ok"
    /\ calls[3].outcome = "ok"

\* C7: for an empty range the script makes no backend call, fetches no row,
\* produces no flat row and runs through the grouping by date without an error.
C7_EmptyRangeNoError ==
    start_dt = end_dt =>
        /\ calls = <<>>
        /\ all_dfs = <<>>
        /\ data = <<>>
        /\ flattened_data = <<>>
        /\ pc # "crashed"

-----------------------------------------------------------------------------
\* Properties of the flattening.

\* a before b in the lexicographic order of index tuples of one length
LexLess(a, b) ==
    \E n \in 1..Len(a) :
        /\ a[n] < b[n]
        /\ \A m \in 1..(n - 1) : a[m] = b[m]

\* C4 (specification Spec): flat rows stand in the lexicographic order of
\* (window that fetched the raw row, position of the raw row in that window's
\* backend result, position of the reading in the row's data array), and so do
\* the rows of the combined frame; each flat row is the reading its index
\* names.
C4_FlatOrderIsInputOrder ==
    /\ \A a \in 1..Len(data) : \A b \in 1..Len(data) :
          a < b => LexLess(data[a].src, data[b].src)
    /\ \A a \in 1..Len(flattened_data) : \A b \in 1..Len(flattened_data) :
          a < b => LexLess(flattened_data[a].src, flattened_data[b].src)
    /\ \A a \in 1..Len(flattened_data) :
          LET f == flattened_data[a]
              w == calls[f.src[1]]
              raw == BackendQuery(w.start, w.end)[f.src[2]]
              item == raw.data.items[f.src[3]]
          IN  /\ f.ts = raw.dateTimeGenerated
              /\ f.tagName = item.tagName
              /\ f.value = item.value

\* C4 witness: the script is done and the output holds two readings of one
\* row, two rows of one window and rows of two windows.
C4_Witness ==
    /\ pc = "done"
    /\ \E a \in 1..Len(flattened_data) : \E b \in 1..Len(flattened_data) :
          /\ a < b
          /\ flattened_data[a].src[1] = flattened_data[b].src[1]
          /\ flattened_data[a].src[2] = flattened_data[b].src[2]
    /\ \E a \in 1..Len(flattened_data) : \E b \in 1..Len(flattened_data) :
          /\ a < b
          /\ flattened_data[a].src[1] = flattened_data[b].src[1]
          /\ flattened_data[a].src[2] < flattened_data[b].src[2]
    /\ \E a \in 1..Len(flattened_data) : \E b \in 1..Len(flattened_data) :
          /\ a < b
          /\ flattened_data[a].src[1] < flattened_data[b].src[1]

\* An exception left flatten_data and ended the comprehension.
FlattenAborted == pc = "crashed" /\ err \in {"AttributeError", "TypeError", "ValueError"}

\* Row i has been handed to flatten_data, which printed an error for it.
RowLogged(i) == \E n \in 1..Len(log) : log[n].kind = "row" /\ log[n].at = i

\* Row i has been handed to flatten_data, which returned its rows, and the
\* comprehension that collects them has not been ended by an exception.
RowReturned(i) ==
    /\ i < idx
    /\ ~RowLogged(i)
    /\ ~FlattenAborted

\* The positions in row i's data array of the readings in the output.
EmittedOf(i) ==
    {flattened_data[a].src[3] :
        a \in {a \in 1..Len(flattened_data) : flattened_data[a].src[2] = i}}

\* Two characters equal up to the case of a letter.
SameLetter(c, d) ==
    \/ c = d
    \/ \E n \in 1..26 : {c, d} = {UpperChars[n], LowerChars[n]}

\* matches(tagName, patterns) of the specification: the sentinel "*" is in
\* the list, or some pattern occurs in tagName up to case.  An absent tagName
\* counts as the empty string; null has no substring.
SpecMatches(tag) ==
    \/ \E p \in 1..Len(ALLOWED_TAG_NAMES) : ALLOWED_TAG_NAMES[p] = Star
    \/ /\ tag.k # "null"
       /\ \E p \in 1..Len(ALLOWED_TAG_NAMES) :
             \E off \in 0..(Len(tag.s) - Len(ALLOWED_TAG_NAMES[p])) :
                 \A n \in 1..Len(ALLOWED_TAG_NAMES[p]) :
                     SameLetter(ALLOWED_TAG_NAMES[p][n], tag.s[off + n])

\* C5 (specification SpecFlat): for every row flatten_data returned the rows
\* of (while no exception has ended the flattening), a reading is in the output iff the allow-list holds "*" or one of its
\* patterns is a substring of the reading's tagName up to case; a reading
\* with an empty or absent tagName is in the output only if the list holds
\* "*" or an empty pattern.
C5_FilterIsCaseInsensitiveSubstring ==
    \A i \in 1..Len(data) :
        RowReturned(i) =>
            LET items == JsonLoads(data[i].data).v.items
            IN  \A k \in 1..Len(items) :
                    /\ (k \in EmittedOf(i)) <=> SpecMatches(items[k].tagName)
                    /\ (k \in EmittedOf(i) /\ items[k].tagName.k # "null"
                            /\ items[k].tagName.s = <<>>) =>
                          \E p \in 1..Len(ALLOWED_TAG_NAMES) :
                              ALLOWED_TAG_NAMES[p] \in {Star, <<>>}

\* C5 witness: with the allow-list ["aB"], a row's reading "Ab" is in the
\* output and its reading "B" is not.
C5_Witness ==
    /\ ALLOWED_TAG_NAMES = <<<<"a", "B">>>>
    /\ \E i \in 1..Len(data) :
          /\ RowReturned(i)
          /\ EmittedOf(i) # {}
          /\ EmittedOf(i) # 1..Len(JsonLoads(data[i].data).v.items)
    /\ \E a \in 1..Len(flattened_data) : flattened_data[a].tagName.s = <<"A", "b">>

\* A raw row with a malformed payload: data is not JSON, or not an array of
\* tag-reading objects, or a reading's tagName is null.
Malformed(row) ==
    \/ ~row.data.valid
    \/ row.data.v.k # "array"
    \/ \E k \in 1..Len(row.data.v.items) :
          \/ ~row.data.v.items[k].obj
          \/ row.data.v.items[k].tagName.k = "null"

\* C6 (specification SpecScripts): a malformed raw row is logged, puts no flat
\* row in the output and never ends the flattening.
C6_MalformedRowsSkipped ==
    /\ ~FlattenAborted
    /\ \A i \in 1..Len(data) :
          (i < idx /\ Malformed(data[i])) => (RowLogged(i) /\ EmittedOf(i) = {})

\* C10 (specification SpecFlat): date and time of every flat row are the
\* day and the time of day, with all six microsecond digits, of the raw row's
\* instant in the target zone, for both flatten_data implementations.
C10_LocalTimeExact ==
    \A a \in 1..Len(flattened_data) :
        /\ flattened_data[a].date = StrftimeDate(flattened_data[a].ts + TzOffset * US)
        /\ flattened_data[a].time = StrftimeTime(flattened_data[a].ts + TzOffset * US)

=============================================================================
